---- MODULE Spec2Model ----
(***************************************************************************)
(* usePanResponder (src/src/index.ts): the process-wide claim grantedTouch *)
(* and, per hook instance, the id ref, the GestureState ref and the        *)
(* callback ref.  Every event handler and the imperative API is one        *)
(* action; a handler runs to completion (single-threaded, synchronous).    *)
(*                                                                         *)
(* The program operators take and return a "world" record W holding the    *)
(* program's mutable state, so that a handler is the composition of the    *)
(* functions it calls, in the order of the source.                         *)
(*                                                                         *)
(* Events: every handler of every mounted instance may be called at any    *)
(* time with any event.  The React state `pressed` (set by handleStart,    *)
(* handleStartCapture and handleEnd) only decides whether the window mouse *)
(* listeners of lines 362-373 are attached, that is which of these calls   *)
(* the browser makes; no handler reads it, and it is not modelled.         *)
(*                                                                         *)
(* Numbers: positions are integer points, lengths are exact (the model's   *)
(* points are collinear multiples of (3,4), so every length is an          *)
(* integer), quotients are exact rationals [num, den]; a quotient with     *)
(* den = 0 stands for the Infinity/NaN a JavaScript division by 0 gives.   *)
(*                                                                         *)
(* User callbacks: a notification callback is user code and may call back  *)
(* into the API.  The one such callback modelled is an onTerminate that    *)
(* calls terminateCurrentResponder (the name Reenters in the option set);  *)
(* the call stack is bounded, and a call beyond it throws.                 *)
(***************************************************************************)
EXTENDS Integers, Sequences, FiniteSets, TLC

VARIABLES
    mounted,        \* the hook instances that exist
    pointer,        \* the positions the pointer takes in this run
    grantedTouch,   \* the shared claim: Null or [id, onTerminate]
    id,             \* id[i]: the instance's id ref (uid || Math.random())
    state,          \* state[i]: the instance's GestureState ref
    options,        \* options[i]: the option object of the latest render
    callbackRefs,   \* callbackRefs[i]: the names of the callbacks registered
    now,            \* the clock read by Date.now()
    calls,          \* the notifications dispatched by the last operation
    defaultPrevented,   \* whether the last operation called e.preventDefault()
    life            \* per instance: the lifecycle read off the notifications

vars == <<mounted, pointer, grantedTouch, id, state, options, callbackRefs,
          now, calls, defaultPrevented, life>>

-----------------------------------------------------------------------------
(* Bounds *)

NumInstances == 2
MaxPos == 1
MaxTime == 1
MaxLocal == 1
MaxStack == 2

Instances == 1..NumInstances

\* grantedTouch = null: no claim (no instance, no id)
Null == [id |-> 0, onTerminate |-> 0]

-----------------------------------------------------------------------------
(* Exact arithmetic *)

Abs(n) == IF n < 0 THEN -n ELSE n

RECURSIVE Gcd(_, _)
Gcd(a, b) == IF b = 0 THEN a ELSE Gcd(b, a % b)

\* n / d as a reduced fraction; d = 0 gives Infinity (n # 0) or NaN (n = 0)
Div(n, d) ==
    IF d = 0 THEN [num |-> IF n = 0 THEN 0 ELSE IF n > 0 THEN 1 ELSE -1, den |-> 0]
    ELSE LET g == Gcd(Abs(n), Abs(d))
             sg == IF d < 0 THEN -1 ELSE 1
         IN [num |-> sg * (n \div g), den |-> sg * (d \div g)]

\* Math.sqrt on the squares the model produces
Sqrt(n) == CHOOSE r \in 0..n : r * r = n

-----------------------------------------------------------------------------
(* Events *)

PosOf(k) == <<3 * k, 4 * k>>
Positions == {PosOf(k) : k \in 0..MaxPos}

\* An event: its touch points (none on a mouse event), its own
\* <<pageX, pageY>> (<<>> when it has none, as a touch event) and whether it
\* is cancelable.  The events explored: cancelable mouse events, and touch
\* events that are not cancelable (delivered to a passive listener).
MouseEvents(ps) ==
    {[touches |-> <<>>, page |-> p, cancelable |-> TRUE] : p \in ps}
TouchEvents(ps) ==
    {[touches |-> <<p>>, page |-> <<>>, cancelable |-> FALSE] : p \in ps}
Events == MouseEvents(pointer) \cup TouchEvents(pointer)

\* no event: the e of onTerminate() called without an argument
Undefined == [touches |-> <<>>, page |-> <<>>, cancelable |-> FALSE]

\* const { pageX, pageY } = e.touches && e.touches[0] ? e.touches[0] : e
PagePos(e) == IF Len(e.touches) > 0 THEN e.touches[1] ELSE e.page

-----------------------------------------------------------------------------
(* Callbacks *)

Queries == {"onStartShouldSetCapture", "onStartShouldSet",
            "onMoveShouldSetCapture", "onMoveShouldSet"}
Notifications == {"onGrant", "onMove", "onRelease", "onTerminate"}

\* the option objects a render may pass: every callback, or none (the
\* default options = {})
OptionSets == {Queries \cup Notifications, {}}

initialState ==
    [time |-> 0, xy |-> <<0, 0>>, delta |-> <<0, 0>>, initial |-> <<0, 0>>,
     previous |-> <<0, 0>>, direction |-> <<Div(0, 1), Div(0, 1)>>,
     local |-> <<0, 0>>, lastLocal |-> <<0, 0>>, velocity |-> Div(0, 1),
     distance |-> 0, first |-> TRUE]

\* the option object whose onTerminate callback calls
\* terminateCurrentResponder()
Reenters == "onTerminate: terminateCurrentResponder()"
ReentrantOptions == Queries \cup Notifications \cup {Reenters}

RECURSIVE terminateCurrentResponder(_)

\* the dispatch of notification fn of instance i: the user's callback runs
\* when it is registered (cb), with state.current and e, and sees the claim
\* getCurrentResponder() returns at that point (claim).  An onTerminate
\* callback that re-enters calls terminateCurrentResponder on a new stack
\* frame; with the stack full the call throws.
Dispatch(W, fn, i, e) ==
    LET W1 == [W EXCEPT !.calls =
                  Append(@, [fn |-> fn, inst |-> i, state |-> W.state[i],
                             e |-> e, cb |-> fn \in W.callbackRefs[i],
                             claim |-> W.grantedTouch])]
    IN IF fn = "onTerminate" /\ Reenters \in W.callbackRefs[i]
       THEN IF W.stack = MaxStack
            THEN [W1 EXCEPT !.thrown = TRUE]
            ELSE [terminateCurrentResponder([W1 EXCEPT !.stack = @ + 1])
                      EXCEPT !.stack = W.stack]
       ELSE W1

\* A query callback that is not registered rejects; a registered one answers
\* q, the user's decision for this state and event.
onStartShouldSet(W, i, e, q) ==
    IF "onStartShouldSet" \in W.callbackRefs[i] THEN q ELSE FALSE

onStartShouldSetCapture(W, i, e, q) ==
    IF "onStartShouldSetCapture" \in W.callbackRefs[i] THEN q ELSE FALSE

\* onMoveShouldSet approving when no callback is registered
onMoveShouldSet_unsetApproves(W, i, e, q) ==
    IF "onMoveShouldSet" \in W.callbackRefs[i] THEN q ELSE TRUE

onMoveShouldSet(W, i, e, q) ==
    IF "onMoveShouldSet" \in W.callbackRefs[i] THEN q ELSE FALSE

onMoveShouldSetCapture(W, i, e, q) ==
    IF "onMoveShouldSetCapture" \in W.callbackRefs[i] THEN q ELSE FALSE

-----------------------------------------------------------------------------
(* Notifications *)

\* onGrant taking lastLocal from initialState
onGrant_resetsLastLocal(W, i, e) ==
    LET p == PagePos(e)
        s == W.state[i]
        W1 == [W EXCEPT !.state[i] =
                  [s EXCEPT !.lastLocal = initialState.lastLocal,
                            !.xy = p, !.initial = p, !.previous = p,
                            !.time = W.now]]
    IN Dispatch(W1, "onGrant", i, e)

onGrant(W, i, e) ==
    LET p == PagePos(e)
        s == W.state[i]
        W1 == [W EXCEPT !.state[i] =
                  \* lastLocal: s.lastLocal || initialState.lastLocal, and an
                  \* array is never falsy
                  [s EXCEPT !.lastLocal = s.lastLocal,
                            !.xy = p, !.initial = p, !.previous = p,
                            !.time = W.now]]
    IN Dispatch(W1, "onGrant", i, e)

\* the velocity stored without the test for an elapsed time of 0
onMoveVelocity_noGuard(s, len, time) == Div(len, time - s.time)

onMoveVelocity(s, len, time) ==
    IF time - s.time = 0 THEN s.velocity ELSE Div(len, time - s.time)

onMove(W, i, e) ==
    LET p == PagePos(e)
        s == W.state[i]
        time == W.now
        x_dist == p[1] - s.xy[1]
        y_dist == p[2] - s.xy[2]
        delta_x == p[1] - s.initial[1]
        delta_y == p[2] - s.initial[2]
        distance == Sqrt(delta_x * delta_x + delta_y * delta_y)
        len == Sqrt(x_dist * x_dist + y_dist * y_dist)
        scaler == IF len # 0 THEN len ELSE 1
        W1 == [W EXCEPT !.state[i] =
                  [s EXCEPT !.time = time,
                            !.xy = p,
                            !.delta = <<delta_x, delta_y>>,
                            !.local = <<s.lastLocal[1] + p[1] - s.initial[1],
                                        s.lastLocal[2] + p[2] - s.initial[2]>>,
                            !.velocity = onMoveVelocity(s, len, time),
                            !.distance = distance,
                            !.direction = <<Div(x_dist, scaler), Div(y_dist, scaler)>>,
                            !.previous = s.xy,
                            !.first = FALSE]]
    IN Dispatch(W1, "onMove", i, e)

\* onRelease without persisting lastLocal
onRelease_noPersist(W, i, e) == Dispatch(W, "onRelease", i, e)

onRelease(W, i, e) ==
    Dispatch([W EXCEPT !.state[i].lastLocal = W.state[i].local],
             "onRelease", i, e)

onTerminate(W, i, e) ==
    Dispatch([W EXCEPT !.state[i].lastLocal = W.state[i].local],
             "onTerminate", i, e)

-----------------------------------------------------------------------------
(* Arbitration *)

\* attemptGrant without its early return when a claim exists
attemptGrant_noGuard(W, i, e) ==
    onGrant([W EXCEPT !.grantedTouch = [id |-> W.id[i], onTerminate |-> i],
                      !.state[i].first = TRUE], i, e)

\* attemptGrant returning early only for a claim of another instance
attemptGrant_regrantsOwner(W, i, e) ==
    IF W.grantedTouch # Null /\ W.grantedTouch.id # W.id[i] THEN W
    ELSE onGrant([W EXCEPT !.grantedTouch = [id |-> W.id[i], onTerminate |-> i],
                           !.state[i].first = TRUE], i, e)

attemptGrant(W, i, e) ==
    IF W.grantedTouch # Null THEN W
    ELSE onGrant([W EXCEPT !.grantedTouch = [id |-> W.id[i], onTerminate |-> i],
                           !.state[i].first = TRUE], i, e)

\* claimTouch dropping the claim without telling its holder
claimTouch_noTerminate(W, i, e) ==
    attemptGrant([W EXCEPT !.grantedTouch = Null], i, e)

\* an exception thrown by grantedTouch.onTerminate(e) leaves claimTouch
\* before the claim is dropped
claimTouch(W, i, e) ==
    LET T == onTerminate(W, W.grantedTouch.onTerminate, e)
        W1 == IF W.grantedTouch # Null
              THEN IF T.thrown THEN T ELSE [T EXCEPT !.grantedTouch = Null]
              ELSE W
    IN IF W1.thrown THEN W1 ELSE attemptGrant(W1, i, e)

\* isGrantedTouch without the comparison of ids
isGrantedTouch_anyClaim(W, i) == W.grantedTouch # Null

isGrantedTouch(W, i) ==
    W.grantedTouch # Null /\ W.grantedTouch.id = W.id[i]

\* if (e.cancelable) e.preventDefault()
preventDefault(W, e) ==
    IF e.cancelable THEN [W EXCEPT !.defaultPrevented = TRUE] ELSE W

-----------------------------------------------------------------------------
(* Event handlers *)

handleStartCapture(W, i, e, q) ==
    LET granted == onStartShouldSetCapture(W, i, e, q)
    IN IF granted THEN attemptGrant(W, i, e) ELSE W

\* handleStart claiming the touch as the move handlers do
handleStart_claims(W, i, e, q) ==
    LET W1 == preventDefault(W, e)
        granted == onStartShouldSet(W1, i, e, q)
    IN IF granted THEN claimTouch(W1, i, e) ELSE W1

handleStart(W, i, e, q) ==
    LET W1 == preventDefault(W, e)
        granted == onStartShouldSet(W1, i, e, q)
    IN IF granted THEN attemptGrant(W1, i, e) ELSE W1

\* handleEnd dropping the claim after the release notification
handleEnd_releasesFirst(W, i, e) ==
    IF ~isGrantedTouch(W, i) THEN W
    ELSE LET W1 == [W EXCEPT !.state[i].first = FALSE]
         IN [onRelease(preventDefault(W1, e), i, e) EXCEPT !.grantedTouch = Null]

handleEnd(W, i, e) ==
    IF ~isGrantedTouch(W, i) THEN W
    ELSE LET W1 == [W EXCEPT !.grantedTouch = Null, !.state[i].first = FALSE]
         IN onRelease(preventDefault(W1, e), i, e)

handleMoveCapture(W, i, e, q) ==
    IF ~isGrantedTouch(W, i)
    THEN LET grant == onMoveShouldSetCapture(W, i, e, q)
             W1 == claimTouch(W, i, e)
         IN IF grant
            THEN IF W1.thrown THEN W1 ELSE onMove(W1, i, e)
            ELSE W
    ELSE onMove(W, i, e)

\* handleMove processing the move whoever holds the claim
handleMove_noGate(W, i, e, q) == onMove(W, i, e)

handleMove(W, i, e, q) ==
    IF ~isGrantedTouch(W, i)
    THEN IF onMoveShouldSet(W, i, e, q)
         THEN LET W1 == claimTouch(W, i, e)
              IN IF W1.thrown THEN W1 ELSE onMove(W1, i, e)
         ELSE W
    ELSE onMove(W, i, e)

-----------------------------------------------------------------------------
(* Render *)

\* a render whose effect does not run: callbackRefs keeps the first options
render_noEffect(W, i, o) == [W EXCEPT !.options[i] = o]

\* usePanResponder(o) called again for instance i, and its effect
\* callbackRefs.current = options
render(W, i, o) == [W EXCEPT !.options[i] = o, !.callbackRefs[i] = o]

-----------------------------------------------------------------------------
(* Imperative API *)

\* terminateCurrentResponder leaving the claim in place
terminateCurrentResponder_noClear(W) ==
    IF W.grantedTouch # Null
    THEN onTerminate(W, W.grantedTouch.onTerminate, Undefined)
    ELSE W

\* an exception thrown by grantedTouch.onTerminate() leaves the function
\* before the claim is dropped
terminateCurrentResponder(W) ==
    IF W.grantedTouch # Null
    THEN LET T == onTerminate(W, W.grantedTouch.onTerminate, Undefined)
         IN IF T.thrown THEN T ELSE [T EXCEPT !.grantedTouch = Null]
    ELSE W

getCurrentResponder(W) == W.grantedTouch

-----------------------------------------------------------------------------
(* The lifecycle of each instance, read off the notifications dispatched:  *)
(* active from its onGrant to its onRelease or onTerminate; G the position *)
(* of the granting event, base the value of local when the claim before    *)
(* the current one ended, L the value of local when the last claim ended.  *)

NoLife == [active |-> FALSE, G |-> <<0, 0>>, base |-> <<0, 0>>, L |-> <<0, 0>>]

Step(l, c) ==
    IF c.fn = "onGrant"
    THEN [l EXCEPT ![c.inst] = [active |-> TRUE, G |-> PagePos(c.e),
                                base |-> l[c.inst].L, L |-> l[c.inst].L]]
    ELSE IF c.fn \in {"onRelease", "onTerminate"}
    THEN [l EXCEPT ![c.inst] = [active |-> FALSE, G |-> l[c.inst].G,
                                base |-> l[c.inst].base, L |-> c.state.local]]
    ELSE l

RECURSIVE Track(_, _)
Track(l, cs) == IF cs = <<>> THEN l ELSE Track(Step(l, Head(cs)), Tail(cs))

-----------------------------------------------------------------------------
(* State machine *)

\* the program's state when an operation begins
World ==
    [grantedTouch |-> grantedTouch, id |-> id, state |-> state,
     options |-> options, callbackRefs |-> callbackRefs, now |-> now,
     calls |-> <<>>, defaultPrevented |-> FALSE, stack |-> 0, thrown |-> FALSE]

InBounds(W) ==
    \A i \in Instances :
        /\ Abs(W.state[i].local[1]) <= 3 * MaxLocal
        /\ Abs(W.state[i].lastLocal[1]) <= 3 * MaxLocal

Commit(W) ==
    /\ InBounds(W)
    /\ grantedTouch' = W.grantedTouch
    /\ state' = W.state
    /\ options' = W.options
    /\ callbackRefs' = W.callbackRefs
    /\ calls' = W.calls
    /\ defaultPrevented' = W.defaultPrevented
    /\ life' = Track(life, W.calls)
    /\ UNCHANGED <<mounted, pointer, id, now>>

\* The runs explored: every instance mounted and the pointer at rest on one
\* point, or one instance mounted and the pointer moving over Positions.
Runs == {<<Instances, {PosOf(1)}>>, <<{1}, Positions>>}

\* no uid configured: Math.random() gives every instance an id of its own
Init ==
    /\ \E r \in Runs : mounted = r[1] /\ pointer = r[2]
    /\ grantedTouch = Null
    /\ id = [i \in Instances |-> i]
    /\ state = [i \in Instances |-> initialState]
    /\ options \in [Instances -> OptionSets]
    /\ \A i \in Instances \ mounted : options[i] = {}
    /\ callbackRefs = options
    /\ now = 0
    /\ calls = <<>>
    /\ defaultPrevented = FALSE
    /\ life = [i \in Instances |-> NoLife]

\* the answers the user's query callback fn of instance i may give
Answers(i, fn) == IF fn \in callbackRefs[i] THEN BOOLEAN ELSE {FALSE}

HandleStartCapture(i) ==
    \E e \in Events, q \in Answers(i, "onStartShouldSetCapture") : Commit(handleStartCapture(World, i, e, q))

HandleStart(i) ==
    \E e \in Events, q \in Answers(i, "onStartShouldSet") : Commit(handleStart(World, i, e, q))

HandleEnd(i) ==
    \E e \in Events : Commit(handleEnd(World, i, e))

HandleMoveCapture(i) ==
    \E e \in Events, q \in Answers(i, "onMoveShouldSetCapture") : Commit(handleMoveCapture(World, i, e, q))

HandleMove(i) ==
    \E e \in Events, q \in Answers(i, "onMoveShouldSet") : Commit(handleMove(World, i, e, q))

\* called through the API object of instance i
TerminateCurrentResponder(i) ==
    Commit(terminateCurrentResponder(World))

\* a render of instance i with the option object o: the effect stores it
Render(i) ==
    \E o \in OptionSets \ {options[i]} : Commit(render(World, i, o))

\* time passes
Tick ==
    /\ now < MaxTime
    /\ now' = now + 1
    /\ calls' = <<>>
    /\ defaultPrevented' = FALSE
    /\ UNCHANGED <<mounted, pointer, grantedTouch, id, state, options,
                   callbackRefs, life>>

Next ==
    \/ \E i \in mounted : HandleStartCapture(i)
    \/ \E i \in mounted : HandleStart(i)
    \/ \E i \in mounted : HandleEnd(i)
    \/ \E i \in mounted : HandleMoveCapture(i)
    \/ \E i \in mounted : HandleMove(i)
    \/ \E i \in mounted : TerminateCurrentResponder(i)
    \/ \E i \in mounted : Render(i)
    \/ Tick

Spec == Init /\ [][Next]_vars

\* The two families of runs of Spec, one at a time: every instance mounted
\* (arbitration between instances), and the pointer moving over Positions
\* (the kinematics of one instance).
InitInstances == Init /\ mounted = Instances
SpecInstances == InitInstances /\ [][Next]_vars

InitPointer == Init /\ pointer = Positions
SpecPointer == InitPointer /\ [][Next]_vars

-----------------------------------------------------------------------------
(* Properties *)

Notes(fn, i, cs) == {k \in 1..Len(cs) : cs[k].fn = fn /\ cs[k].inst = i}

Active == {i \in Instances : life[i].active}

\* C1: at most one instance is between its onGrant and its onRelease or
\* onTerminate, it is the instance whose id the shared claim stores, and no
\* instance is when there is no claim.
C1_SingleHolder ==
    /\ Cardinality(Active) <= 1
    /\ grantedTouch # Null =>
           Active = {i \in Instances : id[i] = grantedTouch.id}
    /\ grantedTouch = Null => Active = {}

\* an instance holds the claim after another one was forced out of it
C1_Witness ==
    \E a, b \in mounted :
        /\ a # b
        /\ Active = {b}
        /\ grantedTouch.id = id[b]
        /\ Notes("onTerminate", a, calls) # {}

\* C2: when b is granted the claim that a different instance a holds, a's
\* onTerminate is dispatched exactly once, with the same event as b's
\* onGrant and before it, and b is the holder afterwards.
C2_PreemptionOrdering ==
    [][\A a, b \in Instances :
          (/\ a # b
           /\ isGrantedTouch(World, a)
           /\ Notes("onGrant", b, calls') # {})
          => /\ Cardinality(Notes("onTerminate", a, calls')) = 1
             /\ \A t \in Notes("onTerminate", a, calls'),
                   g \in Notes("onGrant", b, calls') :
                    t < g /\ calls'[t].e = calls'[g].e /\ calls'[t].e # Undefined
             /\ grantedTouch' = [id |-> id[b], onTerminate |-> b]]_vars

\* b was granted the claim in the operation that forced a out
C2_Witness ==
    \E a, b \in mounted :
        /\ a # b
        /\ Notes("onTerminate", a, calls) # {}
        /\ Notes("onGrant", b, calls) # {}
        /\ isGrantedTouch(World, b)

\* the notifications cs keep every instance in onGrant onMove* (onRelease |
\* onTerminate), starting from the lifecycles l
RECURSIVE ShapeOK(_, _)
ShapeOK(l, cs) ==
    \/ cs = <<>>
    \/ LET c == Head(cs)
       IN /\ c.fn = "onGrant" => ~l[c.inst].active
          /\ c.fn \in {"onMove", "onRelease", "onTerminate"} => l[c.inst].active
          /\ ShapeOK(Step(l, c), Tail(cs))

\* C3: onMove and onRelease (and onTerminate) of an instance are dispatched
\* only between its onGrant and its next onRelease or onTerminate, and
\* onGrant only outside: per instance the notifications read
\* (onGrant onMove* (onRelease | onTerminate))*.
C3_ExclusiveDelivery == [][ShapeOK(life, calls')]_vars

\* a move gave a the claim of b: b's lifecycle ended by onTerminate, a's began
\* by onGrant and a's onMove followed
C3_Witness ==
    \E a, b \in mounted :
        /\ a # b
        /\ Notes("onTerminate", b, calls) # {}
        /\ Notes("onGrant", a, calls) # {}
        /\ Notes("onMove", a, calls) # {}
        /\ life[a].active /\ ~life[b].active

\* the worlds an approved start event e leaves when handled by b: by
\* handleStartCapture and by handleStart, where the query is registered
StartApproved(b, e) ==
    {handleStartCapture(World, b, e, TRUE) :
        x \in {"onStartShouldSetCapture"} \cap callbackRefs[b]}
    \cup {handleStart(World, b, e, TRUE) :
        x \in {"onStartShouldSet"} \cap callbackRefs[b]}

\* C4 as stated: an approved start of b while a different instance a holds
\* the claim dispatches a's onTerminate with the event, installs b as the
\* holder and dispatches b's onGrant.
C4_StartPreempts ==
    \A a, b \in mounted, e \in Events :
        (a # b /\ life[a].active)
        => \A W \in StartApproved(b, e) :
              /\ \E t \in Notes("onTerminate", a, W.calls) : W.calls[t].e = e
              /\ W.grantedTouch = [id |-> id[b], onTerminate |-> b]
              /\ Notes("onGrant", b, W.calls) # {}

\* C4 amended: an approved start of b while a different instance a holds the
\* claim arbitrates nothing: a stays the holder, no notification is
\* dispatched and no GestureState changes; with no claim, b is installed as
\* the holder and its onGrant is dispatched with the event.
C4_StartDoesNotPreempt ==
    \A b \in mounted, e \in Events :
        \A W \in StartApproved(b, e) :
            /\ (\E a \in Instances : a # b /\ life[a].active)
                 => /\ W.grantedTouch = grantedTouch
                    /\ W.state = state
                    /\ W.calls = <<>>
            /\ grantedTouch = Null
                 => /\ W.grantedTouch = [id |-> id[b], onTerminate |-> b]
                    /\ Len(W.calls) = 1
                    /\ W.calls[1].fn = "onGrant" /\ W.calls[1].inst = b
                    /\ W.calls[1].e = e

\* a holds the claim and a cancelable start has just been handled without a
\* notification, b's start query being registered
C4_Witness ==
    \E a, b \in mounted :
        /\ a # b
        /\ life[a].active /\ isGrantedTouch(World, a)
        /\ "onStartShouldSet" \in callbackRefs[b]
        /\ defaultPrevented /\ calls = <<>>

\* the query callback fn of instance i is not registered or answers q = FALSE
Rejects(i, fn, q) == fn \notin callbackRefs[i] \/ ~q

\* C5: a move event handled by handleMoveCapture and then handleMove of an
\* instance that is not the holder, both move queries rejecting or unset,
\* changes no GestureState and not the claim, and dispatches no
\* notification.
C5_OwnershipGatedMoves ==
    \A i \in mounted, e \in Events, qc \in BOOLEAN, qb \in BOOLEAN :
        (/\ ~life[i].active
         /\ Rejects(i, "onMoveShouldSetCapture", qc)
         /\ Rejects(i, "onMoveShouldSet", qb))
        => LET W1 == handleMoveCapture(World, i, e, qc)
               W2 == handleMove(W1, i, e, qb)
           IN /\ W1.state = state /\ W2.state = state
              /\ W1.grantedTouch = grantedTouch /\ W2.grantedTouch = grantedTouch
              /\ W1.calls = <<>> /\ W2.calls = <<>>

\* a holds the claim; i, which does not, has its move queries registered
\* (they may reject) and the last operation dispatched nothing
C5_Witness ==
    \E a, i \in mounted :
        /\ a # i
        /\ life[a].active /\ ~life[i].active
        /\ {"onMoveShouldSetCapture", "onMoveShouldSet"} \subseteq callbackRefs[i]
        /\ state[a] # initialState
        /\ calls = <<>> /\ ~defaultPrevented

\* C6: an end event handled by an instance that does not hold the claim
\* (never granted, released, or forced out) leaves the claim and every
\* GestureState as they are and dispatches no notification.
C6_StaleReleaseNoOp ==
    \A i \in mounted, e \in Events :
        ~life[i].active
        => LET W == handleEnd(World, i, e)
           IN /\ W.grantedTouch = grantedTouch
              /\ W.state = state
              /\ W.calls = <<>>

\* a holds the claim while b, which held one before, does not
C6_Witness ==
    \E a, b \in mounted :
        /\ a # b
        /\ life[a].active /\ grantedTouch.onTerminate = a
        /\ ~life[b].active /\ state[b] # initialState

\* C7: terminateCurrentResponder with a claim dispatches the holder's
\* onTerminate exactly once, with no event, and getCurrentResponder() then
\* returns none; without a claim it changes nothing and dispatches nothing.
C7_TerminateExact ==
    LET W == terminateCurrentResponder(World)
    IN IF grantedTouch # Null
       THEN /\ Len(W.calls) = 1
            /\ W.calls[1].fn = "onTerminate"
            /\ W.calls[1].e = Undefined
            /\ life[W.calls[1].inst].active
            /\ id[W.calls[1].inst] = grantedTouch.id
            /\ getCurrentResponder(W) = Null
       ELSE /\ W.calls = <<>>
            /\ W.grantedTouch = grantedTouch
            /\ W.state = state
            /\ W.callbackRefs = callbackRefs

\* terminateCurrentResponder has just ended a claim
C7_Witness ==
    /\ Len(calls) = 1
    /\ calls[1].fn = "onTerminate" /\ calls[1].e = Undefined
    /\ grantedTouch = Null

\* C8: the snapshot of every processed move has local = L + (xy - initial),
\* L being the value of local when the instance's previous claim ended by
\* onRelease or onTerminate ((0,0) if there was none) and initial the
\* position of the event that granted the current claim.
C8_Continuity ==
    \A k \in 1..Len(calls) :
        calls[k].fn = "onMove"
        => LET c == calls[k]
               l == life[c.inst]
           IN /\ c.state.xy = PagePos(c.e)
              /\ c.state.initial = l.G
              /\ c.state.local = <<l.base[1] + (c.state.xy[1] - l.G[1]),
                                   l.base[2] + (c.state.xy[2] - l.G[2])>>
              /\ state[c.inst].local = c.state.local

\* a move away from the grant position, in a claim that follows one which
\* ended away from the origin
C8_Witness ==
    \E k \in 1..Len(calls) :
        /\ calls[k].fn = "onMove"
        /\ life[calls[k].inst].base # <<0, 0>>
        /\ PagePos(calls[k].e) # life[calls[k].inst].G

\* C9 as stated: within a claim's lifetime first is true in the snapshot
\* handed to onGrant and false in every snapshot handed to onMove,
\* onRelease and onTerminate.
C9_FirstFlagLaw ==
    \A k \in 1..Len(calls) :
        /\ calls[k].fn = "onGrant" => calls[k].state.first
        /\ calls[k].fn \in {"onMove", "onRelease", "onTerminate"}
               => ~calls[k].state.first

\* the snapshot the move at calls'[k] was computed from: the one its own
\* grant left when the move follows it in the same operation, else the
\* instance's state before the operation
Before(k) ==
    IF k > 1 /\ calls'[k - 1].fn = "onGrant" /\ calls'[k - 1].inst = calls'[k].inst
    THEN calls'[k - 1].state
    ELSE state[calls'[k].inst]

Length(p, r) ==
    Sqrt((p[1] - r[1]) * (p[1] - r[1]) + (p[2] - r[2]) * (p[2] - r[2]))

\* C10: a processed move whose time equals the time of the snapshot before
\* it keeps that snapshot's velocity, whatever the displacement; otherwise
\* the velocity is the length of the displacement divided by the elapsed
\* time; no quotient by 0 is stored.
C10_VelocityStability ==
    [][\A k \in 1..Len(calls') :
          calls'[k].fn = "onMove"
          => LET c == calls'[k]
                 s == Before(k)
             IN /\ c.state.time = now
                /\ c.state.velocity.den # 0
                /\ now = s.time => c.state.velocity = s.velocity
                /\ now # s.time
                     => c.state.velocity =
                            Div(Length(PagePos(c.e), s.xy), now - s.time)]_vars

\* a move with a displacement and no elapsed time: the velocity is still 0
C10_Witness ==
    \E k \in 1..Len(calls) :
        /\ calls[k].fn = "onMove"
        /\ calls[k].state.xy # calls[k].state.previous
        /\ calls[k].state.velocity = Div(0, 1)

\* C11: every grant dispatches onGrant exactly once, with the granting
\* event and the instance's new snapshot: first = TRUE, xy, initial and
\* previous at the event's position, time the current time, lastLocal the
\* value before the grant (the value of local when the instance's claim
\* before ended), and the instance is then the holder.
C11_GrantEffect ==
    /\ \A k \in 1..Len(calls) :
          calls[k].fn = "onGrant"
          => LET c == calls[k]
             IN /\ c.state.first
                /\ c.state.xy = PagePos(c.e)
                /\ c.state.initial = PagePos(c.e)
                /\ c.state.previous = PagePos(c.e)
                /\ c.state.time = now
                /\ c.state.lastLocal = life[c.inst].base
                /\ c.claim = [id |-> id[c.inst], onTerminate |-> c.inst]
                /\ Cardinality(Notes("onGrant", c.inst, calls)) = 1
    /\ \A i \in mounted, e \in Events :
          grantedTouch = Null
          => \A W \in {attemptGrant(World, i, e)} :
                /\ W.state[i] = [state[i] EXCEPT !.first = TRUE,
                                                 !.xy = PagePos(e),
                                                 !.initial = PagePos(e),
                                                 !.previous = PagePos(e),
                                                 !.time = now]
                /\ W.state[i].lastLocal = state[i].lastLocal
                /\ Len(W.calls) = 1
                /\ W.calls[1].fn = "onGrant" /\ W.calls[1].inst = i
                /\ W.calls[1].e = e /\ W.calls[1].state = W.state[i]

\* a grant to an instance whose claim before ended away from the origin
C11_Witness ==
    \E k \in 1..Len(calls) :
        /\ calls[k].fn = "onGrant"
        /\ calls[k].state.lastLocal # <<0, 0>>
        /\ grantedTouch.onTerminate = calls[k].inst

\* C12: a start event handled by handleStartCapture and then handleStart of
\* the instance that holds the claim, whatever its start queries answer,
\* leaves the claim and every GestureState as they are and dispatches no
\* notification; and when the capture query of a start event granted the
\* claim, the bubble query approving the same event changes nothing more.
C12_SameOwnerGrantIdempotent ==
    \A i \in mounted, e \in Events :
        /\ life[i].active
            => \A qc \in Answers(i, "onStartShouldSetCapture"),
                  qb \in Answers(i, "onStartShouldSet") :
                  \A W1 \in {handleStartCapture(World, i, e, qc)} :
                  \A W2 \in {handleStart(W1, i, e, qb)} :
                     /\ W1.grantedTouch = grantedTouch
                     /\ W2.grantedTouch = grantedTouch
                     /\ W1.state = state /\ W2.state = state
                     /\ W1.calls = <<>> /\ W2.calls = <<>>
        /\ (grantedTouch = Null /\ "onStartShouldSetCapture" \in callbackRefs[i])
            => \A qb \in Answers(i, "onStartShouldSet") :
                  \A W1 \in {handleStartCapture(World, i, e, TRUE)} :
                  \A W2 \in {handleStart(W1, i, e, qb)} :
                     /\ isGrantedTouch(W1, i)
                     /\ W2.grantedTouch = W1.grantedTouch
                     /\ W2.state = W1.state
                     /\ W2.calls = W1.calls
                     /\ Cardinality(Notes("onGrant", i, W2.calls)) = 1
                     /\ Notes("onTerminate", i, W2.calls) = {}

\* the holder, past its first move and its start queries registered, has just
\* handled a cancelable start event: nothing was dispatched
C12_Witness ==
    \E i \in mounted :
        /\ life[i].active /\ isGrantedTouch(World, i)
        /\ {"onStartShouldSetCapture", "onStartShouldSet"} \subseteq callbackRefs[i]
        /\ ~state[i].first
        /\ defaultPrevented /\ calls = <<>>

\* every notification of instance i in cs invoked the callback of the
\* option object o, if o has one
Invoked(cs, i, o) ==
    \A c \in {cs[k] : k \in 1..Len(cs)} : c.inst = i => c.cb = (c.fn \in o)

\* the worlds left by the operations that may follow in world W and
\* dispatch a notification of instance i: a start, a move and an end event
\* handled by i, a termination through the API, and a move handled by
\* another instance whose query approves
Later(W, i, e) ==
    {handleStart(W, i, e, TRUE), handleMove(W, i, e, TRUE),
     handleEnd(W, i, e), terminateCurrentResponder(W)}
    \cup {handleMove(W, b, e, TRUE) : b \in mounted \ {i}}

\* C13: a render of instance i with a new option object o changes no
\* GestureState and not the claim and dispatches nothing; the queries of i
\* after it consult the callbacks of o, and the notifications of i after it
\* invoke the callbacks of o, the onTerminate reached through the claim
\* granted before the render included.  Every notification dispatched so
\* far invoked the callback of the latest option object.
C13_LatestCallbacks ==
    /\ \A i \in mounted : Invoked(calls, i, options[i])
    /\ \A i \in mounted, o \in OptionSets, e \in Events :
          \A W \in {render(World, i, o)} :
             /\ W.state = state
             /\ W.grantedTouch = grantedTouch
             /\ W.calls = <<>>
             /\ onStartShouldSetCapture(W, i, e, TRUE)
                    = ("onStartShouldSetCapture" \in o)
             /\ onStartShouldSet(W, i, e, TRUE) = ("onStartShouldSet" \in o)
             /\ onMoveShouldSetCapture(W, i, e, TRUE)
                    = ("onMoveShouldSetCapture" \in o)
             /\ onMoveShouldSet(W, i, e, TRUE) = ("onMoveShouldSet" \in o)
             /\ \A V \in Later(W, i, e) : Invoked(V.calls, i, o)
             /\ life[i].active
                  => \A V \in {terminateCurrentResponder(W)} :
                        Notes("onTerminate", i, V.calls) # {}

\* the holder's onTerminate was dispatched and no callback ran: the claim
\* was granted when the instance's options had the query that approved it,
\* and the options were replaced by {} before the termination
C13_Witness ==
    \E k \in 1..Len(calls) :
        /\ calls[k].fn = "onTerminate"
        /\ calls[k].claim.onTerminate = calls[k].inst
        /\ ~calls[k].cb
        /\ options[calls[k].inst] = {}

\* C14 as stated: terminateCurrentResponder called through the API of an
\* instance that does not own the claim another instance holds leaves the
\* claim in place and dispatches no notification.
C14_NonOwnerTerminateNoOp ==
    \A i \in mounted :
        (grantedTouch # Null /\ ~isGrantedTouch(World, i))
        => LET W == terminateCurrentResponder(World)
           IN /\ getCurrentResponder(W) = grantedTouch
              /\ W.calls = <<>>

\* C15: an end event handled by the holder drops the claim, dispatches
\* onRelease exactly once, with the event, and nothing else; the callback
\* sees no claim, and the snapshot it is handed, which is the instance's
\* GestureState afterwards, is the one before with first = FALSE and
\* lastLocal = local (xy, initial, delta and local are unchanged).
C15_EndProtocol ==
    \A i \in mounted, e \in Events :
        life[i].active
        => \A W \in {handleEnd(World, i, e)} :
              /\ getCurrentResponder(W) = Null
              /\ Len(W.calls) = 1
              /\ W.calls[1].fn = "onRelease" /\ W.calls[1].inst = i
              /\ W.calls[1].e = e
              /\ W.calls[1].claim = Null
              /\ W.calls[1].state = W.state[i]
              /\ W.state = [state EXCEPT ![i] =
                               [state[i] EXCEPT !.first = FALSE,
                                                !.lastLocal = state[i].local]]
              /\ W.state[i].xy = state[i].xy
              /\ W.state[i].initial = state[i].initial
              /\ W.state[i].delta = state[i].delta
              /\ W.state[i].local = state[i].local

\* the holder's claim has just ended by an end event, after a move away
\* from the grant position
C15_Witness ==
    /\ Len(calls) = 1
    /\ calls[1].fn = "onRelease"
    /\ calls[1].state.xy # calls[1].state.initial
    /\ calls[1].state.lastLocal # <<0, 0>>
    /\ grantedTouch = Null

\* C16 as stated: in every snapshot handed to onGrant, onMove, onRelease or
\* onTerminate, delta = xy - initial and distance is the length of delta.
C16_DeltaInvariant ==
    \A k \in 1..Len(calls) :
        LET s == calls[k].state
        IN /\ s.delta = <<s.xy[1] - s.initial[1], s.xy[2] - s.initial[2]>>
           /\ s.distance = Length(s.delta, <<0, 0>>)

\* C17 as stated: a move event handled by handleMoveCapture and then by
\* handleMove of an instance that is the holder afterwards dispatches the
\* instance's onMove exactly once; and, the instance holding the claim
\* before the event, the snapshot left has previous at the position of the
\* event before and direction the displacement from it over its length.
C17_OneMovePerEvent ==
    \A i \in mounted, e \in Events :
        \A qc \in Answers(i, "onMoveShouldSetCapture"),
           qb \in Answers(i, "onMoveShouldSet") :
            LET W1 == handleMoveCapture(World, i, e, qc)
                W2 == handleMove(W1, i, e, qb)
                p == PagePos(e)
                len == Length(p, state[i].xy)
                scaler == IF len # 0 THEN len ELSE 1
            IN isGrantedTouch(W2, i)
               => /\ Cardinality(Notes("onMove", i, W2.calls)) = 1
                  /\ life[i].active
                       => /\ W2.state[i].previous = state[i].xy
                          /\ W2.state[i].direction =
                                 <<Div(p[1] - state[i].xy[1], scaler),
                                   Div(p[2] - state[i].xy[2], scaler)>>

\* C18 as stated: a move event at the position of the holder's xy, handled
\* by handleMove, dispatches onMove once and leaves direction = (0,0),
\* time = the current time, and delta, local and distance as they were.
C18_ZeroDisplacementMove ==
    \A i \in mounted, e \in Events, q \in BOOLEAN :
        (life[i].active /\ PagePos(e) = state[i].xy)
        => LET W == handleMove(World, i, e, q)
           IN /\ Cardinality(Notes("onMove", i, W.calls)) = 1
              /\ W.state[i].direction = <<Div(0, 1), Div(0, 1)>>
              /\ W.state[i].time = now
              /\ W.state[i].delta = state[i].delta
              /\ W.state[i].local = state[i].local
              /\ W.state[i].distance = state[i].distance

-----------------------------------------------------------------------------
(* Instances configured with one uid *)

\* config.uid is the same for every instance: id = useRef(uid || ...)
InitUid ==
    /\ \E r \in Runs : mounted = r[1] /\ pointer = r[2]
    /\ grantedTouch = Null
    /\ id = [i \in Instances |-> NumInstances + 1]
    /\ state = [i \in Instances |-> initialState]
    /\ options \in [Instances -> OptionSets]
    /\ \A i \in Instances \ mounted : options[i] = {}
    /\ callbackRefs = options
    /\ now = 0
    /\ calls = <<>>
    /\ defaultPrevented = FALSE
    /\ life = [i \in Instances |-> NoLife]

SpecUid == InitUid /\ [][Next]_vars

\* C19 as stated: while the claim is the one granted to a, an end event
\* handled by a different instance b, whatever the ids, leaves the claim in
\* place and dispatches no onRelease of b; and a move event handled by b
\* dispatches b's onMove only if b's move query approved it and a's
\* onTerminate was dispatched before.
C19_PerInstanceOwnership ==
    \A a, b \in mounted, e \in Events :
        (a # b /\ grantedTouch # Null /\ grantedTouch.onTerminate = a)
        => /\ LET W == handleEnd(World, b, e)
              IN /\ W.grantedTouch = grantedTouch
                 /\ Notes("onRelease", b, W.calls) = {}
           /\ \A q \in BOOLEAN :
                 \A W \in {handleMoveCapture(World, b, e, q),
                           handleMove(World, b, e, q)} :
                     \A m \in Notes("onMove", b, W.calls) :
                         /\ q
                         /\ \E t \in Notes("onTerminate", a, W.calls) : t < m

-----------------------------------------------------------------------------
(* onTerminate callbacks that call terminateCurrentResponder *)

\* as Init, an instance's options possibly having the re-entrant onTerminate
InitReentrant ==
    /\ \E r \in Runs : mounted = r[1] /\ pointer = r[2]
    /\ grantedTouch = Null
    /\ id = [i \in Instances |-> i]
    /\ state = [i \in Instances |-> initialState]
    /\ options \in [Instances -> OptionSets \cup {ReentrantOptions}]
    /\ \A i \in Instances \ mounted : options[i] = {}
    /\ callbackRefs = options
    /\ now = 0
    /\ calls = <<>>
    /\ defaultPrevented = FALSE
    /\ life = [i \in Instances |-> NoLife]

SpecReentrant == InitReentrant /\ [][Next]_vars

\* the operation that left W returned, having dispatched the onTerminate of
\* a exactly once, and the callback did not see the claim being terminated
TerminatedOnce(W, a) ==
    /\ ~W.thrown
    /\ Cardinality(Notes("onTerminate", a, W.calls)) = 1
    /\ \A k \in Notes("onTerminate", a, W.calls) : W.calls[k].claim # grantedTouch

\* C20 as stated: when the onTerminate callback of the holder a calls
\* terminateCurrentResponder, an explicit termination and a move of another
\* instance whose query approves both return with a's onTerminate
\* dispatched exactly once, the nested call finding no claim; and
\* getCurrentResponder() inside onTerminate does not return the claim being
\* terminated.
C20_ReentrantTermination ==
    \A a \in mounted :
        (grantedTouch # Null /\ grantedTouch.onTerminate = a
            /\ Reenters \in callbackRefs[a])
        => /\ TerminatedOnce(terminateCurrentResponder(World), a)
           /\ getCurrentResponder(terminateCurrentResponder(World)) = Null
           /\ \A b \in mounted \ {a}, e \in Events :
                 /\ "onMoveShouldSetCapture" \in callbackRefs[b]
                      => TerminatedOnce(handleMoveCapture(World, b, e, TRUE), a)
                 /\ "onMoveShouldSet" \in callbackRefs[b]
                      => TerminatedOnce(handleMove(World, b, e, TRUE), a)

====
